---- MODULE Spec2Model ----
(***************************************************************************)
(* The boundary adapter of src/wasm/src/lib.rs: one entry point, solve,    *)
(* that parses a cone specification and solver options from JSON text,    *)
(* builds the sparse matrices, the cone list and the solver settings,     *)
(* runs the external solver inside catch_unwind and returns a SolveResult.*)
(*                                                                         *)
(* The external crates are modelled by what the adapter relies on:        *)
(*   - serde_json / serde derive: the struct visitor (a JSON object is    *)
(*     read entry by entry, a wrongly typed or duplicate field is an      *)
(*     error, a field left out is an error unless it has a serde default);*)
(*   - clarabel CscMatrix::new: panics when the three arrays do not fit   *)
(*     the dimensions;                                                    *)
(*   - clarabel DefaultSolver: opaque, it may panic in new or in solve    *)
(*     with any payload, or return with any SolverStatus.                 *)
(* Panics unwind, so catch_unwind catches those raised inside its scope.  *)
(***************************************************************************)
EXTENDS Integers, Sequences, FiniteSets, TLC

VARIABLES
    pc,            \* "idle", "returned" (solve returned a SolveResult), "crashed" (a panic left solve)
    args,          \* <<>> or <<the arguments of the call>>
    ext,           \* <<>> or <<what the external solver did in this call>>
    solverLog,     \* the DefaultSolver::new calls of this call: <<>> or <<[cones, settings]>>
    settingsLog,   \* the settings handed to the solver by the last two constructions, in any call
    result         \* <<>> or <<the SolveResult returned>>

vars == <<pc, args, ext, solverLog, settingsLog, result>>

(***************************************************************************)
(* f64 values: m * 10^e, or an infinity.                                   *)
(***************************************************************************)
F(m, e) == [inf |-> FALSE, m |-> m, e |-> e]
INFINITY == [inf |-> TRUE, m |-> 1, e |-> 0]
is_infinite(f) == f.inf

(***************************************************************************)
(* Option<T>.                                                              *)
(***************************************************************************)
Some(v) == [some |-> TRUE, v |-> v]
None == [some |-> FALSE]

(***************************************************************************)
(* JSON values and JSON text.  A text is syntactically invalid ("bad"), a  *)
(* scalar (a valid JSON value that is neither an object nor an array), or  *)
(* an object: its entries in text order, each a name and a value.          *)
(***************************************************************************)
JNull == [k |-> "null", i |-> 0, x |-> 0, a |-> <<>>]
JBool(b) == [k |-> "bool", i |-> IF b THEN 1 ELSE 0, x |-> 0, a |-> <<>>]
JInt(i) == [k |-> "int", i |-> i, x |-> 0, a |-> <<>>]
JFloat(m, e) == [k |-> "float", i |-> m, x |-> e, a |-> <<>>]
JStr == [k |-> "str", i |-> 0, x |-> 0, a |-> <<>>]
JArr(s) == [k |-> "arr", i |-> 0, x |-> 0, a |-> s]

BadText == [kind |-> "bad", val |-> JNull, fields |-> <<>>]
ScalarText(v) == [kind |-> "scalar", val |-> v, fields |-> <<>>]
ObjText(entries) == [kind |-> "obj", val |-> JNull, fields |-> entries]
Entry(name, v) == [name |-> name, val |-> v]

(***************************************************************************)
(* serde: what each Rust field type accepts from a JSON value, and the     *)
(* value it is given.                                                      *)
(***************************************************************************)
FieldType(name) ==
    CASE name \in {"zero", "nonneg", "exp"} -> "usize"
      [] name = "soc" -> "vec_usize"
      [] name = "power" -> "vec_f64"
      [] name = "verbose" -> "bool"
      [] name = "max_iter" -> "u32"
      [] name \in {"time_limit", "tol_gap_abs", "tol_gap_rel"} -> "f64"

ConeSpecFields == <<"zero", "nonneg", "soc", "exp", "power">>
SolverSettingsFields == <<"verbose", "max_iter", "time_limit", "tol_gap_abs", "tol_gap_rel">>

ElemType(ty) == IF ty = "vec_usize" THEN "usize" ELSE "f64"

ScalarAccepts(ty, jv) ==
    CASE ty \in {"usize", "u32"} -> jv.k = "int" /\ jv.i >= 0
      [] ty = "f64" -> jv.k \in {"int", "float"}
      [] ty = "bool" -> jv.k = "bool"

Accepts(ty, jv) ==
    IF ty \in {"vec_usize", "vec_f64"}
    THEN jv.k = "arr" /\ \A i \in 1..Len(jv.a) : ScalarAccepts(ElemType(ty), jv.a[i])
    ELSE ScalarAccepts(ty, jv)

ScalarFromJson(ty, jv) ==
    CASE ty \in {"usize", "u32"} -> jv.i
      [] ty = "f64" -> IF jv.k = "int" THEN F(jv.i, 0) ELSE F(jv.i, jv.x)
      [] ty = "bool" -> jv.i = 1

FromJson(ty, jv) ==
    IF ty \in {"vec_usize", "vec_f64"}
    THEN [i \in 1..Len(jv.a) |-> ScalarFromJson(ElemType(ty), jv.a[i])]
    ELSE ScalarFromJson(ty, jv)

Range(seq) == {seq[i] : i \in 1..Len(seq)}

(***************************************************************************)
(* The derived struct visitor: the entries are read in text order; an      *)
(* unknown name is skipped, a known name seen twice is an error, a value   *)
(* the field's type does not accept is an error.  The result is the        *)
(* message of the first error, or "".                                      *)
(***************************************************************************)
RECURSIVE visit_map(_, _, _, _)
visit_map(known, entries, i, seen) ==
    IF i > Len(entries) THEN ""
    ELSE LET e == entries[i] IN
         IF e.name \notin known THEN visit_map(known, entries, i + 1, seen)
         ELSE IF e.name \in seen THEN "duplicate field " \o e.name
         ELSE IF ~Accepts(FieldType(e.name), e.val)
              THEN "invalid type: " \o e.val.k \o ", expected " \o FieldType(e.name)
         ELSE visit_map(known, entries, i + 1, seen \cup {e.name})

(* After the entries: the first field, in declaration order, that has no   *)
(* serde default and was not given; "" when there is none.                 *)
RECURSIVE missing_field(_, _, _, _)
missing_field(fields, required, present, i) ==
    IF i > Len(fields) THEN ""
    ELSE IF fields[i] \in required /\ fields[i] \notin present
         THEN "missing field " \o fields[i]
         ELSE missing_field(fields, required, present, i + 1)

Err(msg) == [ok |-> FALSE, err |-> msg]
Ok(v) == [ok |-> TRUE, v |-> v]

(* serde_json::from_str into a struct with the given fields: Err(message), *)
(* or Ok of the fields given, each converted to its Rust type.             *)
deserialize_struct(text, fields, required, struct) ==
    IF text.kind = "bad" THEN Err("expected value")
    ELSE IF text.kind = "scalar"
         THEN Err("invalid type: " \o text.val.k \o ", expected struct " \o struct)
    ELSE LET known == Range(fields)
             present == {text.fields[i].name : i \in 1..Len(text.fields)} \cap known
             e1 == visit_map(known, text.fields, 1, {})
             e2 == missing_field(fields, required, present, 1)
             given(name) == text.fields[CHOOSE i \in 1..Len(text.fields) :
                                            text.fields[i].name = name].val
         IN  IF e1 # "" THEN Err(e1)
             ELSE IF e2 # "" THEN Err(e2)
             ELSE Ok([name \in present |-> FromJson(FieldType(name), given(name))])

(* from_str_ConeSpec with a fault: every field optional, as with serde     *)
(* defaults.                                                               *)
from_str_ConeSpec_lenient(text) ==
    LET r == deserialize_struct(text, ConeSpecFields, {}, "ConeSpec")
        get(name, dflt) == IF name \in DOMAIN r.v THEN r.v[name] ELSE dflt
    IN  IF r.ok
        THEN Ok([zero |-> get("zero", 0), nonneg |-> get("nonneg", 0), soc |-> get("soc", <<>>),
                 exp |-> get("exp", 0), power |-> get("power", <<>>)])
        ELSE r

(***************************************************************************)
(* ConeSpec: no field has a serde default, so all five are required.       *)
(***************************************************************************)
from_str_ConeSpec(text) ==
    LET r == deserialize_struct(text, ConeSpecFields, Range(ConeSpecFields), "ConeSpec")
    IN  IF r.ok
        THEN Ok([zero |-> r.v["zero"], nonneg |-> r.v["nonneg"], soc |-> r.v["soc"],
                 exp |-> r.v["exp"], power |-> r.v["power"]])
        ELSE r

(***************************************************************************)
(* SolverSettings: every field has a serde default, used when the field is *)
(* left out of a well-formed object; the derived Default impl is the       *)
(* default of each field type (false, 0, 0.0).                             *)
(***************************************************************************)
default_max_iter == 100
default_time_limit == INFINITY
default_tol == F(1, -8)

SolverSettings_default ==
    [verbose |-> FALSE, max_iter |-> 0, time_limit |-> F(0, 0),
     tol_gap_abs |-> F(0, 0), tol_gap_rel |-> F(0, 0)]

(* from_str_SolverSettings with a fault: a field left out keeps the value  *)
(* the solver was last given instead of its default.                       *)
from_str_SolverSettings_sticky(text) ==
    LET r == deserialize_struct(text, SolverSettingsFields, {}, "SolverSettings")
        last == settingsLog[Len(settingsLog)]
        get(name, dflt) == IF name \in DOMAIN r.v THEN r.v[name]
                           ELSE IF settingsLog # <<>> THEN last[name] ELSE dflt
    IN  IF r.ok
        THEN Ok([verbose |-> get("verbose", FALSE),
                 max_iter |-> get("max_iter", default_max_iter),
                 time_limit |-> get("time_limit", default_time_limit),
                 tol_gap_abs |-> get("tol_gap_abs", default_tol),
                 tol_gap_rel |-> get("tol_gap_rel", default_tol)])
        ELSE r

from_str_SolverSettings(text) ==
    LET r == deserialize_struct(text, SolverSettingsFields, {}, "SolverSettings")
        get(name, dflt) == IF name \in DOMAIN r.v THEN r.v[name] ELSE dflt
    IN  IF r.ok
        THEN Ok([verbose |-> get("verbose", FALSE),
                 max_iter |-> get("max_iter", default_max_iter),
                 time_limit |-> get("time_limit", default_time_limit),
                 tol_gap_abs |-> get("tol_gap_abs", default_tol),
                 tol_gap_rel |-> get("tol_gap_rel", default_tol)])
        ELSE r

unwrap_or_default(r) == IF r.ok THEN r.v ELSE SolverSettings_default

(***************************************************************************)
(* build_cones                                                             *)
(***************************************************************************)
ZeroConeT(dim) == [cone |-> "Zero", dim |-> dim, alpha |-> F(0, 0)]
NonnegativeConeT(dim) == [cone |-> "Nonnegative", dim |-> dim, alpha |-> F(0, 0)]
SecondOrderConeT(dim) == [cone |-> "SecondOrder", dim |-> dim, alpha |-> F(0, 0)]
ExponentialConeT == [cone |-> "Exponential", dim |-> 3, alpha |-> F(0, 0)]
PowerConeT(alpha) == [cone |-> "Power", dim |-> 3, alpha |-> alpha]

(* build_cones with a fault: one exponential cone too many. *)
build_cones_extra_exp(spec) ==
    (IF spec.zero > 0 THEN <<ZeroConeT(spec.zero)>> ELSE <<>>)
    \o (IF spec.nonneg > 0 THEN <<NonnegativeConeT(spec.nonneg)>> ELSE <<>>)
    \o [i \in 1..Len(spec.soc) |-> SecondOrderConeT(spec.soc[i])]
    \o [i \in 1..(spec.exp + 1) |-> ExponentialConeT]
    \o [i \in 1..Len(spec.power) |-> PowerConeT(spec.power[i])]

build_cones(spec) ==
    (IF spec.zero > 0 THEN <<ZeroConeT(spec.zero)>> ELSE <<>>)
    \o (IF spec.nonneg > 0 THEN <<NonnegativeConeT(spec.nonneg)>> ELSE <<>>)
    \o [i \in 1..Len(spec.soc) |-> SecondOrderConeT(spec.soc[i])]
    \o [i \in 1..spec.exp |-> ExponentialConeT]
    \o [i \in 1..Len(spec.power) |-> PowerConeT(spec.power[i])]

(***************************************************************************)
(* status_to_string                                                        *)
(***************************************************************************)
SolverStatus ==
    {"Unsolved", "Solved", "PrimalInfeasible", "DualInfeasible", "AlmostSolved",
     "AlmostPrimalInfeasible", "AlmostDualInfeasible", "MaxIterations", "MaxTime",
     "NumericalError", "InsufficientProgress"}

(* status_to_string with a fault: the MaxTime arm is missing. *)
status_to_string_no_max_time(status) ==
    CASE status = "Solved" -> "optimal"
      [] status = "PrimalInfeasible" -> "infeasible"
      [] status = "DualInfeasible" -> "unbounded"
      [] status = "MaxIterations" -> "max_iterations"
      [] OTHER -> "unknown"

status_to_string(status) ==
    CASE status = "Solved" -> "optimal"
      [] status = "PrimalInfeasible" -> "infeasible"
      [] status = "DualInfeasible" -> "unbounded"
      [] status = "MaxIterations" -> "max_iterations"
      [] status = "MaxTime" -> "max_iterations"
      [] OTHER -> "unknown"

(***************************************************************************)
(* solve                                                                   *)
(***************************************************************************)
(* u32 as usize: widening, the value is kept. *)
as_usize(x) == x

(* clarabel CscMatrix::new(m, n, colptr, rowval, nzval) asserts that the   *)
(* arrays fit the dimensions and panics otherwise (colptr[n] is 0-based).  *)
CscMatrix_new_panics(m, n, colptr, rowval, nzval) ==
    \/ Len(rowval) # Len(nzval)
    \/ Len(colptr) # n + 1
    \/ colptr[n + 1] # Len(rowval)

SolveResult(status, obj_val, x, z, solve_time, iterations) ==
    [status |-> status, obj_val |-> obj_val, x |-> x, z |-> z,
     solve_time |-> solve_time, iterations |-> iterations]

(* The Err arm of the cone specification parse. *)
cone_error_result(e) ==
    SolveResult("error: invalid cone spec: " \o e, None, None, None, F(0, 0), 0)

(* solver_time_limit with a fault: the infinity is passed on. *)
solver_time_limit_uncapped(settings) == settings.time_limit

(* The time limit handed to the settings builder. *)
solver_time_limit(settings) ==
    IF is_infinite(settings.time_limit) THEN F(1, 10) ELSE settings.time_limit

(* DefaultSettingsBuilder: the five fields set, everything else clarabel's. *)
DefaultSettingsBuilder(settings) ==
    [verbose |-> settings.verbose, max_iter |-> settings.max_iter,
     time_limit |-> solver_time_limit(settings),
     tol_gap_abs |-> settings.tol_gap_abs, tol_gap_rel |-> settings.tol_gap_rel]

(* ok_result with a fault: x is filled in whatever the status. *)
ok_result_x_always(solution, info) ==
    SolveResult(status_to_string(solution.status),
                IF solution.status = "Solved" THEN Some(solution.obj_val) ELSE None,
                Some(solution.x),
                IF solution.status = "Solved" THEN Some(solution.z) ELSE None,
                info.solve_time, info.iterations)

(* The closure under catch_unwind, when the solver returns. *)
ok_result(solution, info) ==
    SolveResult(status_to_string(solution.status),
                IF solution.status = "Solved" THEN Some(solution.obj_val) ELSE None,
                IF solution.status = "Solved" THEN Some(solution.x) ELSE None,
                IF solution.status = "Solved" THEN Some(solution.z) ELSE None,
                info.solve_time, info.iterations)

(* panic_message with a fault: only a &str payload is read. *)
panic_message_str_only(payload) ==
    IF payload.ty = "&str" THEN payload.msg ELSE "Unknown panic"

(* The message taken from a panic payload: a &str, a String, or neither. *)
panic_message(payload) ==
    IF payload.ty = "&str" THEN payload.msg
    ELSE IF payload.ty = "String" THEN payload.msg
    ELSE "Unknown panic"

(* The Err arm of catch_unwind; the solver and its info are gone. *)
panic_result(payload, info) ==
    SolveResult("error: solver panic: " \o panic_message(payload), None, None, None, F(0, 0), 0)

(* Whether building P or A panics; both are built outside catch_unwind. *)
matrices_panic(in) ==
    \/ CscMatrix_new_panics(as_usize(in.n), as_usize(in.n),
                            in.p_col_ptr, in.p_row_idx, in.p_values)
    \/ CscMatrix_new_panics(as_usize(in.m), as_usize(in.n),
                            in.a_col_ptr, in.a_row_idx, in.a_values)

(* solve with a fault: the matrices are built before the cone              *)
(* specification is parsed.                                                *)
solve_matrices_first(in, e) ==
    LET cone_spec == from_str_ConeSpec(in.cone_spec_json)
        settings == unwrap_or_default(from_str_SolverSettings(in.settings_json))
    IN  IF matrices_panic(in)
        THEN [ret |-> <<>>, solver |-> <<>>]
        ELSE IF ~cone_spec.ok
        THEN [ret |-> <<cone_error_result(cone_spec.err)>>, solver |-> <<>>]
        ELSE [ret |-> <<IF e.fault = "none"
                        THEN ok_result(e.solution, e.info)
                        ELSE panic_result(e.payload, e.info)>>,
              solver |-> <<[cones |-> build_cones(cone_spec.v),
                            settings |-> DefaultSettingsBuilder(settings)]>>]

(* The body of solve on arguments in, e being what the external solver     *)
(* does when it is reached: ret is <<the SolveResult returned>>, or <<>>   *)
(* when a panic leaves solve; solver is the DefaultSolver::new calls made. *)
solve(in, e) ==
    LET cone_spec == from_str_ConeSpec(in.cone_spec_json)
        settings == unwrap_or_default(from_str_SolverSettings(in.settings_json))
    IN  IF ~cone_spec.ok
        THEN [ret |-> <<cone_error_result(cone_spec.err)>>, solver |-> <<>>]
        ELSE IF matrices_panic(in)
        THEN [ret |-> <<>>, solver |-> <<>>]
        ELSE [ret |-> <<IF e.fault = "none"
                        THEN ok_result(e.solution, e.info)
                        ELSE panic_result(e.payload, e.info)>>,
              solver |-> <<[cones |-> build_cones(cone_spec.v),
                            settings |-> DefaultSettingsBuilder(settings)]>>]

LastTwo(seq) == IF Len(seq) > 2 THEN SubSeq(seq, Len(seq) - 1, Len(seq)) ELSE seq

(* One call of solve by the host. *)
Solve(in, e) ==
    /\ pc = "idle"
    /\ LET o == solve(in, e)
       IN  /\ args' = <<in>>
           /\ result' = o.ret
           /\ pc' = IF o.ret # <<>> THEN "returned" ELSE "crashed"
           /\ solverLog' = o.solver
           /\ ext' = IF o.solver # <<>> THEN <<e>> ELSE <<>>
           /\ settingsLog' = IF o.solver # <<>>
                             THEN LastTwo(Append(settingsLog, o.solver[1].settings))
                             ELSE settingsLog

(* The host takes the result; the adapter keeps nothing of the call. *)
Reset ==
    /\ pc = "returned"
    /\ pc' = "idle"
    /\ args' = <<>>
    /\ ext' = <<>>
    /\ solverLog' = <<>>
    /\ result' = <<>>
    /\ UNCHANGED settingsLog

Init ==
    /\ pc = "idle"
    /\ args = <<>>
    /\ ext = <<>>
    /\ solverLog = <<>>
    /\ settingsLog = <<>>
    /\ result = <<>>

(***************************************************************************)
(* The external solver: it panics in DefaultSolver::new, or in solve after *)
(* some iterations, with a &str, a String or another payload; or it        *)
(* returns with any status, a solution of the problem's dimensions and its *)
(* info.                                                                   *)
(***************************************************************************)
Vec(len, v) == [i \in 1..len |-> v]

Payloads ==
    {[ty |-> "&str", msg |-> "P not square."],
     [ty |-> "String", msg |-> "assertion failed"],
     [ty |-> "other", msg |-> ""]}

NoPayload == [ty |-> "none", msg |-> ""]

Solution(in, status) ==
    [status |-> status, obj_val |-> F(1, 0), x |-> Vec(in.n, F(1, 0)), z |-> Vec(in.m, F(1, 0))]

Info(iterations) == [solve_time |-> F(2, -3), iterations |-> iterations]

SolverReturns(in) ==
    {[fault |-> "none", payload |-> NoPayload, solution |-> Solution(in, s), info |-> Info(7)] :
        s \in SolverStatus}

SolverFaults(in) ==
    {[fault |-> "new", payload |-> p, solution |-> Solution(in, "Unsolved"), info |-> Info(0)] :
        p \in Payloads}
    \cup
    {[fault |-> "solve", payload |-> p, solution |-> Solution(in, "Unsolved"), info |-> Info(3)] :
        p \in Payloads}

ExtBehaviours(in) == SolverReturns(in) \cup SolverFaults(in)

(***************************************************************************)
(* The arguments the host passes.                                          *)
(***************************************************************************)
Args(prob, cone_spec_json, settings_json) ==
    [n |-> prob.n, m |-> prob.m,
     p_col_ptr |-> prob.p_col_ptr, p_row_idx |-> prob.p_row_idx, p_values |-> prob.p_values,
     q |-> prob.q,
     a_col_ptr |-> prob.a_col_ptr, a_row_idx |-> prob.a_row_idx, a_values |-> prob.a_values,
     b |-> prob.b,
     cone_spec_json |-> cone_spec_json, settings_json |-> settings_json]

(* min x s.t. x >= 1, as in examples/test_solver.rs. *)
E2E ==
    [n |-> 1, m |-> 1,
     p_col_ptr |-> <<0, 0>>, p_row_idx |-> <<>>, p_values |-> <<>>,
     q |-> <<F(1, 0)>>,
     a_col_ptr |-> <<0, 1>>, a_row_idx |-> <<0>>, a_values |-> <<F(-1, 0)>>,
     b |-> <<F(-1, 0)>>]

Problems ==
    {E2E,
     \* a quadratic term
     [E2E EXCEPT !.p_col_ptr = <<0, 1>>, !.p_row_idx = <<0>>, !.p_values = <<F(2, 0)>>],
     \* x = 1 and x = 2: two rows
     [E2E EXCEPT !.m = 2, !.a_col_ptr = <<0, 2>>, !.a_row_idx = <<0, 1>>,
                 !.a_values = <<F(1, 0), F(1, 0)>>, !.b = <<F(1, 0), F(2, 0)>>],
     \* m differs from the rows the cones cover
     [E2E EXCEPT !.m = 2],
     \* column pointers not of length n + 1
     [E2E EXCEPT !.a_col_ptr = <<0>>],
     [E2E EXCEPT !.p_col_ptr = <<>>],
     [E2E EXCEPT !.n = 0],
     \* last column pointer differs from the number of row indices
     [E2E EXCEPT !.a_col_ptr = <<0, 2>>],
     \* row indices and values of different lengths
     [E2E EXCEPT !.a_values = <<>>]}

ObjOf(zero, nonneg, soc, exp, power) ==
    ObjText(<<Entry("zero", zero), Entry("nonneg", nonneg), Entry("soc", soc),
              Entry("exp", exp), Entry("power", power)>>)

ConeJson(zero, nonneg, soc, exp, power) ==
    ObjOf(JInt(zero), JInt(nonneg), JArr([i \in 1..Len(soc) |-> JInt(soc[i])]), JInt(exp),
          JArr([i \in 1..Len(power) |-> JFloat(power[i].m, power[i].e)]))

NonnegOnly == ObjText(<<Entry("nonneg", JInt(1))>>)
NonnegFull == ConeJson(0, 1, <<>>, 0, <<>>)

ConeTexts ==
    {BadText, ScalarText(JInt(5)), ScalarText(JNull), ObjText(<<>>),
     NonnegOnly, NonnegFull,
     ConeJson(2, 0, <<>>, 0, <<>>),
     ConeJson(0, 0, <<3>>, 1, <<F(5, -1)>>),
     \* entries in another order, and a name ConeSpec does not know
     ObjText(<<Entry("power", JArr(<<>>)), Entry("extra", JStr), Entry("exp", JInt(0)),
               Entry("soc", JArr(<<>>)), Entry("nonneg", JInt(1)), Entry("zero", JInt(0))>>),
     \* wrongly typed fields
     ObjOf(JInt(-1), JInt(1), JArr(<<>>), JInt(0), JArr(<<>>)),
     ObjOf(JInt(0), JFloat(15, -1), JArr(<<>>), JInt(0), JArr(<<>>)),
     ObjOf(JInt(0), JInt(1), JInt(3), JInt(0), JArr(<<>>)),
     ObjOf(JInt(0), JInt(1), JArr(<<>>), JInt(0), JArr(<<JStr>>)),
     \* a field given twice
     ObjText(<<Entry("zero", JInt(0)), Entry("zero", JInt(0)), Entry("nonneg", JInt(1)),
               Entry("soc", JArr(<<>>)), Entry("exp", JInt(0)), Entry("power", JArr(<<>>))>>)}

EmptyObj == ObjText(<<>>)

SettingsTexts ==
    {EmptyObj, BadText, ScalarText(JInt(5)),
     ObjText(<<Entry("max_iter", JInt(50))>>),
     ObjText(<<Entry("time_limit", JInt(60)), Entry("verbose", JBool(TRUE))>>),
     ObjText(<<Entry("verbose", JStr)>>)}

Call ==
    /\ pc = "idle"
    /\ \E p \in Problems, c \in ConeTexts, s \in SettingsTexts :
          LET in == Args(p, c, s)
          IN  \E e \in ExtBehaviours(in) : Solve(in, e)

Next == Call \/ Reset

Spec == Init /\ [][Next]_vars

(***************************************************************************)
(* Calls that vary the options text: the end-to-end problem, a cone        *)
(* specification that parses, and an options object in which each field   *)
(* is left out or given; and texts that do not parse.                      *)
(***************************************************************************)
Given(name, choice) == IF choice = <<>> THEN <<>> ELSE <<Entry(name, choice[1])>>

SettingsObjects ==
    {ObjText(Given("verbose", v) \o Given("max_iter", mi) \o Given("time_limit", tl)
             \o Given("tol_gap_abs", ta)) :
        v \in {<<>>, <<JBool(TRUE)>>},
        mi \in {<<>>, <<JInt(50)>>},
        tl \in {<<>>, <<JInt(60)>>, <<JFloat(25, -1)>>},
        ta \in {<<>>, <<JFloat(1, -6)>>}}
    \cup
    {ObjText(<<Entry("tol_gap_rel", JFloat(1, -4))>>),
     \* all five, in another order, with a name SolverSettings does not know
     ObjText(<<Entry("tol_gap_rel", JFloat(1, -4)), Entry("tol_gap_abs", JFloat(1, -6)),
               Entry("extra", JInt(1)), Entry("time_limit", JInt(60)),
               Entry("max_iter", JInt(50)), Entry("verbose", JBool(FALSE))>>)}

MalformedSettings ==
    {BadText, ScalarText(JInt(5)), ScalarText(JStr),
     ObjText(<<Entry("verbose", JStr)>>),
     ObjText(<<Entry("max_iter", JInt(-1))>>),
     ObjText(<<Entry("max_iter", JInt(50)), Entry("time_limit", JStr)>>),
     ObjText(<<Entry("tol_gap_abs", JNull)>>),
     ObjText(<<Entry("max_iter", JInt(50)), Entry("max_iter", JInt(50))>>)}

SettingsTexts2 == SettingsObjects \cup MalformedSettings

SettingsBehaviours(in) ==
    {e \in ExtBehaviours(in) :
        \/ e.fault = "none" /\ e.solution.status = "Solved"
        \/ e.fault = "new" /\ e.payload.ty = "&str"}

CallSettings ==
    /\ pc = "idle"
    /\ \E s \in SettingsTexts2 :
          LET in == Args(E2E, NonnegFull, s)
          IN  \E e \in SettingsBehaviours(in) : Solve(in, e)

NextSettings == CallSettings \/ Reset

SpecSettings == Init /\ [][NextSettings]_vars

(***************************************************************************)
(* Calls that vary the cone specification within the bounds.               *)
(***************************************************************************)
MaxDim == 2
MaxList == 2
MaxExp == 2

SeqsUpTo(S, len) == UNION {[1..k -> S] : k \in 0..len}

ConeBehaviours(in) ==
    {e \in ExtBehaviours(in) : e.fault = "none" /\ e.solution.status = "Solved"}

CallCones ==
    /\ pc = "idle"
    /\ \E zero \in 0..MaxDim, nonneg \in 0..MaxDim, soc \in SeqsUpTo(0..MaxDim, MaxList),
          exp \in 0..MaxExp, power \in SeqsUpTo({F(5, -1), F(3, -1)}, MaxList) :
          LET in == Args(E2E, ConeJson(zero, nonneg, soc, exp, power), EmptyObj)
          IN  \E e \in ConeBehaviours(in) : Solve(in, e)

NextCones == CallCones \/ Reset

SpecCones == Init /\ [][NextCones]_vars

(***************************************************************************)
(* Properties.                                                             *)
(***************************************************************************)
Called == args # <<>>
Returned == pc = "returned"
SolverReached == solverLog # <<>>

\* What the caller wrote, read off the text without the parser.
HasField(text, name) ==
    text.kind = "obj" /\ \E i \in 1..Len(text.fields) : text.fields[i].name = name
FieldOf(text, name) ==
    text.fields[CHOOSE i \in 1..Len(text.fields) : text.fields[i].name = name].val
NumberOf(jv) == IF jv.k = "int" THEN F(jv.i, 0) ELSE F(jv.i, jv.x)
IsE2E(in) == in = Args(E2E, in.cone_spec_json, in.settings_json)
AllAbsent(r) == r.obj_val = None /\ r.x = None /\ r.z = None

\* C1: every call of solve ends with a returned SolveResult, no panic at any
\* step leaves solve; and arrays that do not fit the dimensions give a result
\* whose status is a solver panic error.
C1_NoPanicLeavesSolve ==
    /\ Called => Returned /\ result # <<>>
    /\ (Called /\ matrices_panic(args[1]) /\ from_str_ConeSpec(args[1].cone_spec_json).ok)
          => (Returned /\ \E p \in Payloads :
                  result[1].status = "error: solver panic: " \o p.msg)

\* C3: in every SolveResult returned, obj_val, x and z are all present if the
\* status is "optimal" and all absent otherwise.
C3_SolutionIffOptimal ==
    Returned =>
        LET r == result[1]
        IN  /\ r.status = "optimal" => r.obj_val.some /\ r.x.some /\ r.z.some
            /\ r.status # "optimal" => AllAbsent(r)

C3_Witness ==
    /\ Returned
    /\ result[1].status = "optimal"
    /\ result[1].x = Some(ext[1].solution.x)
    /\ result[1].z.some /\ result[1].obj_val.some

\* C4: when the cone specification text does not parse, solve returns
\* "error: invalid cone spec: <parser message>" with no solution, zero solve
\* time and zero iterations, and the solver is not constructed, whatever the
\* other arguments are.
C4_ConeSpecErrorShortCircuits ==
    (Called /\ ~from_str_ConeSpec(args[1].cone_spec_json).ok) =>
        /\ Returned
        /\ result[1].status =
              "error: invalid cone spec: " \o from_str_ConeSpec(args[1].cone_spec_json).err
        /\ AllAbsent(result[1])
        /\ result[1].solve_time = F(0, 0)
        /\ result[1].iterations = 0
        /\ ~SolverReached
        /\ ext = <<>>

\* A cone specification that does not parse, with matrices that would panic.
C4_Witness ==
    /\ Returned
    /\ args[1].cone_spec_json = BadText
    /\ matrices_panic(args[1])
    /\ result[1].status = "error: invalid cone spec: expected value"

\* What C5 says of a call: it is accepted, the solver gets exactly one
\* nonnegative cone of dimension 1, and a solved problem is reported optimal.
AcceptedWithOneNonnegCone ==
    /\ Returned
    /\ SolverReached
    /\ solverLog[1].cones = <<NonnegativeConeT(1)>>
    /\ (ext[1].fault = "none" /\ ext[1].solution.status = "Solved")
          => /\ result[1].status = "optimal"
             /\ result[1].obj_val = Some(ext[1].solution.obj_val)
             /\ result[1].x = Some(ext[1].solution.x)

\* C5 as stated: the end-to-end call with the cone specification {nonneg: 1}
\* is accepted.
C5_NonnegOnlyAccepted ==
    (Called /\ IsE2E(args[1]) /\ args[1].cone_spec_json = NonnegOnly)
        => AcceptedWithOneNonnegCone

\* C5 amended: the end-to-end call is accepted with the cone specification
\* that names all five fields, {zero: 0, nonneg: 1, soc: [], exp: 0,
\* power: []}; with {nonneg: 1} alone it returns the invalid cone spec error
\* for the missing field zero and the solver is not reached.
C5_FullSpecAccepted ==
    /\ (Called /\ IsE2E(args[1]) /\ args[1].cone_spec_json = NonnegFull)
          => AcceptedWithOneNonnegCone
    /\ (Called /\ IsE2E(args[1]) /\ args[1].cone_spec_json = NonnegOnly)
          => /\ Returned
             /\ result[1].status = "error: invalid cone spec: missing field zero"
             /\ ~SolverReached

C5_Witness ==
    /\ Returned
    /\ IsE2E(args[1])
    /\ args[1].cone_spec_json = NonnegFull
    /\ ext[1].fault = "none"
    /\ ext[1].solution.status = "Solved"
    /\ result[1].status = "optimal"
    /\ result[1].x.some

\* C6: when the solver returns, the status string is a fixed function of the
\* solver status, never an error string, and "optimal" only for Solved.
C6_StatusMapping ==
    (Returned /\ SolverReached /\ ext[1].fault = "none") =>
        LET s == ext[1].solution.status
            r == result[1].status
        IN  /\ s = "Solved" => r = "optimal"
            /\ s = "PrimalInfeasible" => r = "infeasible"
            /\ s = "DualInfeasible" => r = "unbounded"
            /\ s = "MaxIterations" => r = "max_iterations"
            /\ s = "MaxTime" => r = "max_iterations"
            /\ s \notin {"Solved", "PrimalInfeasible", "DualInfeasible",
                         "MaxIterations", "MaxTime"} => r = "unknown"
            /\ r = "optimal" => s = "Solved"
            /\ r \in {"optimal", "infeasible", "unbounded", "max_iterations", "unknown"}

C6_Witness ==
    /\ Returned
    /\ SolverReached
    /\ ext[1].fault = "none"
    /\ ext[1].solution.status = "MaxTime"
    /\ result[1].status = "max_iterations"

\* C10: when the solver panics in new or in solve, the status is
\* "error: solver panic: " and the payload's string, or "Unknown panic" for a
\* payload that is no string; no solution, zero solve time, zero iterations.
C10_SolverPanicResult ==
    (Returned /\ SolverReached /\ ext[1].fault # "none") =>
        LET p == ext[1].payload
            r == result[1]
        IN  /\ p.ty \in {"&str", "String"} => r.status = "error: solver panic: " \o p.msg
            /\ p.ty \notin {"&str", "String"} => r.status = "error: solver panic: Unknown panic"
            /\ AllAbsent(r)
            /\ r.solve_time = F(0, 0)
            /\ r.iterations = 0

\* The solver panicked in solve after some iterations, with a String payload.
C10_Witness ==
    /\ Returned
    /\ SolverReached
    /\ ext[1].fault = "solve"
    /\ ext[1].payload.ty = "String"
    /\ ext[1].info.iterations > 0
    /\ result[1].status = "error: solver panic: assertion failed"
    /\ result[1].iterations = 0

\* C2: options text that does not parse gives the solver the documented
\* defaults, the settings of the empty object: verbose false, max_iter 100,
\* tolerances 1e-8, time limit unbounded.
C2_MalformedOptionsGiveDefaults ==
    (Returned /\ SolverReached /\ ~from_str_SolverSettings(args[1].settings_json).ok) =>
        LET h == solverLog[1].settings
        IN  /\ h = DefaultSettingsBuilder(from_str_SolverSettings(EmptyObj).v)
            /\ h.verbose = FALSE
            /\ h.max_iter = 100
            /\ h.tol_gap_abs = F(1, -8)
            /\ h.tol_gap_rel = F(1, -8)

\* The time limit the solver gets: `sentinel` when the options leave
\* time_limit out, the caller's number when they give one.
TimeLimitHanded(sentinel) ==
    (Returned /\ SolverReached /\ from_str_SolverSettings(args[1].settings_json).ok) =>
        LET text == args[1].settings_json
            h == solverLog[1].settings
        IN  /\ ~h.time_limit.inf
            /\ ~HasField(text, "time_limit") => h.time_limit = sentinel
            /\ HasField(text, "time_limit") =>
                   h.time_limit = NumberOf(FieldOf(text, "time_limit"))

\* C7 as stated: an unbounded time limit reaches the solver as the finite
\* sentinel 3e17; a finite one is passed through.
C7_SentinelIs3e17 == TimeLimitHanded(F(3, 17))

\* C7 amended: an unbounded time limit (time_limit left out of a well-formed
\* options object) reaches the solver as the finite sentinel 1e10, never as an
\* infinity; a finite one is passed through.
C7_SentinelIs1e10 == TimeLimitHanded(F(1, 10))

C7_Witness ==
    /\ Returned
    /\ SolverReached
    /\ args[1].settings_json = ObjText(<<Entry("max_iter", JInt(50))>>)
    /\ solverLog[1].settings.time_limit = F(1, 10)

\* C8: from a well-formed options object every field given reaches the solver
\* with the caller's value and every field left out has its default (verbose
\* false, max_iter 100, time limit unbounded, which the solver gets as 1e10,
\* tolerances 1e-8), whatever the options of the call before were.
C8_PartialOptions ==
    (Returned /\ SolverReached /\ from_str_SolverSettings(args[1].settings_json).ok) =>
        LET text == args[1].settings_json
            h == solverLog[1].settings
            num(name, dflt) == IF HasField(text, name) THEN NumberOf(FieldOf(text, name))
                               ELSE dflt
        IN  /\ h.verbose = (HasField(text, "verbose") /\ FieldOf(text, "verbose").i = 1)
            /\ h.max_iter = IF HasField(text, "max_iter") THEN FieldOf(text, "max_iter").i
                            ELSE 100
            /\ h.time_limit = num("time_limit", F(1, 10))
            /\ h.tol_gap_abs = num("tol_gap_abs", F(1, -8))
            /\ h.tol_gap_rel = num("tol_gap_rel", F(1, -8))

\* The call before gave max_iter 50 and a tolerance; this one leaves max_iter
\* out and gives another field.
C8_Witness ==
    /\ Returned
    /\ SolverReached
    /\ Len(settingsLog) = 2
    /\ settingsLog[1].max_iter = 50
    /\ settingsLog[1].tol_gap_rel = F(1, -4)
    /\ ~HasField(args[1].settings_json, "max_iter")
    /\ ~HasField(args[1].settings_json, "tol_gap_rel")
    /\ HasField(args[1].settings_json, "tol_gap_abs")
    /\ solverLog[1].settings.max_iter = 100
    /\ solverLog[1].settings.tol_gap_rel = F(1, -8)
    /\ solverLog[1].settings.tol_gap_abs = F(1, -6)

RECURSIVE SumDims(_)
SumDims(cones) == IF cones = <<>> THEN 0 ELSE Head(cones).dim + SumDims(Tail(cones))

RECURSIVE Sum(_)
Sum(ns) == IF ns = <<>> THEN 0 ELSE Head(ns) + Sum(Tail(ns))

\* C9: the cone list the solver gets is, in this order, a zero cone if
\* zero > 0, a nonnegative cone if nonneg > 0, a second-order cone per soc
\* entry, exp exponential cones, a power cone per power entry, and nothing
\* else; its length and total dimension follow, whatever m is.
C9_ConeList ==
    (Returned /\ SolverReached) =>
        LET text == args[1].cone_spec_json
            zero == FieldOf(text, "zero").i
            nonneg == FieldOf(text, "nonneg").i
            soc == FieldOf(text, "soc").a
            exp == FieldOf(text, "exp").i
            power == FieldOf(text, "power").a
            cones == solverLog[1].cones
            nz == IF zero > 0 THEN 1 ELSE 0
            nn == IF nonneg > 0 THEN 1 ELSE 0
        IN  /\ Len(cones) = nz + nn + Len(soc) + exp + Len(power)
            /\ zero > 0 => cones[1] = ZeroConeT(zero)
            /\ nonneg > 0 => cones[nz + 1] = NonnegativeConeT(nonneg)
            /\ \A i \in 1..Len(soc) : cones[nz + nn + i] = SecondOrderConeT(soc[i].i)
            /\ \A i \in 1..exp : cones[nz + nn + Len(soc) + i] = ExponentialConeT
            /\ \A i \in 1..Len(power) :
                   cones[nz + nn + Len(soc) + exp + i] = PowerConeT(NumberOf(power[i]))
            /\ SumDims(cones) = zero + nonneg + Sum([i \in 1..Len(soc) |-> soc[i].i])
                                + 3 * exp + 3 * Len(power)

\* All five blocks present, two cones in each list, and a total that is not m.
C9_Witness ==
    /\ Returned
    /\ SolverReached
    /\ args[1].cone_spec_json = ConeJson(2, 1, <<2, 1>>, 2, <<F(5, -1), F(3, -1)>>)
    /\ Len(solverLog[1].cones) = 8
    /\ SumDims(solverLog[1].cones) = 18
    /\ SumDims(solverLog[1].cones) # args[1].m

====
